---------------------------- MODULE Spec2Model ----------------------------
(***************************************************************************)
(* Wssgrok (src/src/index.ts): a WebSocket wrapper that reconnects after   *)
(* a close, correlates send() with keyed responses and dispatches the      *)
(* lifecycle events connect / disconnect / message / verify.               *)
(*                                                                         *)
(* The instance is single threaded: every action below is one callback or  *)
(* one public call run to completion (including the handlers it invokes).  *)
(***************************************************************************)
EXTENDS Integers, Sequences, FiniteSets, TLC

(* ------------------------------ bounds --------------------------------- *)
\* transports (new WebSocket) ever created
MaxSock == 3
\* connect() calls made by the application, after the constructor's
MaxConnects == 1
\* accepted send() calls (correlation keys ever generated)
MaxKeys == 2
\* handler registrations ever made (on / onNext)
MaxHandlers == 2

(* ------------------------- program constants --------------------------- *)
PING_INTERVAL_MS == 5000
RECONNECT_DELAY_MS == 10000
MESSAGE_TIMEOUT_MS == 10000
\* the "+ 1000" of the backoff, index.ts:82
RECONNECT_MIN_MS == 1000

(* --------------------------- input domains ----------------------------- *)
Kinds == {"connect", "disconnect", "message", "verify"}
\* What a registered handler does when it is invoked:
\*   nop     returns
\*   onNext  calls onNext(kind, nop) for its own kind
\*   on      calls on(kind, nop) for its own kind
\*   verify  calls verify() the first time it is invoked
Behaviours == {"nop", "onNext", "on", "verify"}
\* the timeout argument of send(); None is "omitted" (undefined)
None == -1
Timeouts == {None, 0, 100}
Messages == {"INVOKE_SERVICE"}
Payloads == {"pong"}
Types == {"ok", "failure"}
\* Math.random() in [0,1), as <<numerator, denominator>>
Randoms == {<<0, 1>>, <<9999, 10000>>}

VARIABLES
    ready,                 \* this.ready
    ws,                    \* this.ws: a transport id, 0 = undefined
    sock,                  \* every WebSocket created: [state, sleep]
    pingInterval,          \* this.pingInterval: an interval id, 0 = undefined;
                           \* the interval armed by transport t's onopen has id t
    intervals,             \* interval timers currently armed (ids)
    connectionVerified,    \* this.connectionVerified
    pending,               \* keys of this.pending
    calls,                 \* per key: the resolve/reject invocations, in order
    timer,                 \* per key: the deadline timer: none, armed, fired
    handlers,              \* every registration: [kind, once, beh]
    onEventFunctions,      \* kind -> list of registration ids
    onNextEventFunctions,  \* kind -> list of registration ids
    inv,                   \* per registration: invocations of a one-shot one
    called,                \* "verify" handlers that have made their call
    last                   \* the step just taken: what ran and what it did

vars == <<ready, ws, sock, pingInterval, intervals,
          connectionVerified, pending, calls, timer, handlers,
          onEventFunctions, onNextEventFunctions, inv, called, last>>

connVars == <<ready, ws, sock, pingInterval, intervals>>
reqVars == <<pending, calls, timer>>
busVars == <<handlers, onEventFunctions, onNextEventFunctions, inv, called>>

Keys == 1..Len(calls)
Socks == 1..Len(sock)
Sleeping == {t \in Socks : sock[t].sleep = "sleeping"}
NotClosed == {t \in Socks : sock[t].state # "closed"}

\* The label of a step: the callback or call that ran (op), the transport,
\* key or registration it was about (id), what it returned, raised or put on
\* the wire (res), the payload of the frame it read (val), the timeout
\* argument (arg) and the delay of the timer it armed (ms), and the events
\* and handlers it dispatched, in order, with the arguments each handler was
\* called with (passed).
Step(op, id, res, events, invoked) ==
    [op |-> op, id |-> id, res |-> res, val |-> "", arg |-> None, ms |-> None,
     events |-> events, invoked |-> invoked, passed |-> <<>>]

(* ------------------------------ EventBus ------------------------------- *)
(* A dispatch runs handlers, and a handler may call back into the instance *)
(* (onNext, on, verify), so trigger is computed over a record b of the     *)
(* fields a handler can reach:                                             *)
(*   hs, on, next, inv, called  the bus;  verified  connectionVerified;    *)
(*   events, invoked, passed    what the running step has dispatched.      *)
(* The arguments of a call are the sequence ...args of trigger; a value    *)
(* handed to a handler is the record of its fields.                        *)
(***************************************************************************)
Bus ==
    [hs |-> handlers, on |-> onEventFunctions, next |-> onNextEventFunctions,
     inv |-> inv, called |-> called, verified |-> connectionVerified,
     events |-> <<>>, invoked |-> <<>>, passed |-> <<>>]

\* on(event, f): push on the persistent list. (At the bound on registrations
\* the call is not made.)
PushOn(b, kind, beh) ==
    IF Len(b.hs) >= MaxHandlers THEN b
    ELSE [b EXCEPT !.hs = Append(@, [kind |-> kind, once |-> FALSE, beh |-> beh]),
                   !.inv = Append(@, 0),
                   !.on[kind] = Append(@, Len(b.hs) + 1)]

\* onNext(event, f): push on the list the property holds right now. (At the
\* bound on registrations the call is not made.)
PushNext(b, kind, beh) ==
    IF Len(b.hs) >= MaxHandlers THEN b
    ELSE [b EXCEPT !.hs = Append(@, [kind |-> kind, once |-> TRUE, beh |-> beh]),
                   !.inv = Append(@, 0),
                   !.next[kind] = Append(@, Len(b.hs) + 1)]

\* ClearedList with the reassignment of index.ts:141 left out
ClearedList_Keep(list) == list

\* The one-shot list after a dispatch: a fresh empty array.
ClearedList(list) == <<>>

\* The one-shot handlers a dispatch iterates: Array.prototype.forEach reads
\* the length once, before the first call, and arrays here only grow, so it
\* visits exactly the elements present when the second forEach starts.
NextSnapshot(b, kind) == b.next[kind]

RECURSIVE Trigger(_, _, _)
RECURSIVE ForEach(_, _, _, _)
RECURSIVE Invoke(_, _, _)

\* verify(), index.ts:54-57
VerifyCall(b) == Trigger([b EXCEPT !.verified = TRUE], "verify", <<>>)

\* f(...args) for registration h
Invoke(b, h, args) ==
    LET kind == b.hs[h].kind
        beh == b.hs[h].beh
        first == h \notin b.called
        b1 == [b EXCEPT !.invoked = Append(@, h),
                        !.passed = Append(@, args),
                        !.inv[h] = IF b.hs[h].once THEN @ + 1 ELSE @,
                        !.called = IF beh = "verify" THEN @ \cup {h} ELSE @]
    IN  CASE beh = "nop" -> b1
          [] beh = "onNext" -> PushNext(b1, kind, "nop")
          [] beh = "on" -> PushOn(b1, kind, "nop")
          [] beh = "verify" -> IF first THEN VerifyCall(b1) ELSE b1

\* list.forEach(f => f(...args)) from index i on
ForEach(b, list, i, args) ==
    IF i > Len(list) THEN b
    ELSE ForEach(Invoke(b, list[i], args), list, i + 1, args)

\* trigger(event, ...args), index.ts:137-142
Trigger(b, kind, args) ==
    LET b0 == [b EXCEPT !.events = Append(@, kind)]
        b1 == ForEach(b0, b0.on[kind], 1, args)
        b2 == ForEach(b1, NextSnapshot(b1, kind), 1, args)
    IN  [b2 EXCEPT !.next[kind] = ClearedList(b2.next[kind])]

\* Write a bus record back to the instance.
SetBus(b) ==
    /\ handlers' = b.hs
    /\ onEventFunctions' = b.on
    /\ onNextEventFunctions' = b.next
    /\ inv' = b.inv
    /\ called' = b.called
    /\ connectionVerified' = b.verified

(* --------------------------- request slots ----------------------------- *)
Resolve(v) == [fn |-> "resolve", val |-> v]
Reject(v) == [fn |-> "reject", val |-> v]

\* The promise send() returns, given the calls made on its slot: settled by
\* the first resolve/reject call, every later call is ignored by the promise.
Settled(cs) ==
    IF cs = <<>> THEN [state |-> "pending", val |-> ""]
    ELSE [state |-> IF Head(cs).fn = "resolve" THEN "fulfilled" ELSE "rejected",
          val |-> Head(cs).val]

Future(k) == Settled(calls[k])

\* SendAccepted with the guard of send() dropped
SendAccepted_Always == TRUE

\* if (!this.ready) throw new Error("not ready"), index.ts:173-175
SendAccepted == ready

\* DeadlineMs written timeout || this.messageTimeout: a timeout of 0 becomes
\* the default
DeadlineMs_Or(to) == IF to = None \/ to = 0 THEN MESSAGE_TIMEOUT_MS ELSE to

\* timeout ?? this.messageTimeout, index.ts:202
DeadlineMs(to) == IF to = None THEN MESSAGE_TIMEOUT_MS ELSE to

\* WebSocket.send on transport t: raises InvalidStateError while CONNECTING,
\* queues the frame when OPEN, discards it silently when CLOSED.
TransportSend(t) ==
    CASE sock[t].state = "connecting" -> "throw"
      [] sock[t].state = "open" -> "sent"
      [] sock[t].state = "closed" -> "dropped"

\* RejectAll stopping after the first entry of the map
RejectAll_First(cs, pend) ==
    [k \in DOMAIN cs |->
        IF k \in pend /\ \A j \in pend : k <= j
        THEN Append(cs[k], Reject("disconnect")) ELSE cs[k]]

\* this.pending.forEach((promise) => promise.reject("disconnect")), index.ts:75
RejectAll(cs, pend) ==
    [k \in DOMAIN cs |-> IF k \in pend THEN Append(cs[k], Reject("disconnect")) ELSE cs[k]]

\* VerifiedAfterClose with the flag cleared inside if (this.ready) only
VerifiedAfterClose_IfReady(wasReady, v) == IF wasReady THEN FALSE ELSE v

\* this.connectionVerified = false, index.ts:80
VerifiedAfterClose(wasReady, v) == FALSE

\* RECONNECT_DELAY_MS * Math.random() + 1000, index.ts:82
BackoffMs(r) == (RECONNECT_DELAY_MS * r[1]) \div r[2] + RECONNECT_MIN_MS

\* ClearInterval leaving the timer armed
ClearInterval_Noop(armed, id) == armed

\* clearInterval(this.pingInterval), index.ts:67 and 149: a no-op for an id
\* that is not armed
ClearInterval(armed, id) == armed \ {id}

\* the close event onclose hands to trigger("disconnect", event), index.ts:77
CloseEvent == [type |-> "close"]

\* new WebSocket(this.url), index.ts:63
NewSock == [state |-> "connecting", sleep |-> "no"]

(* ------------------------------- Init ---------------------------------- *)
\* The constructor, index.ts:25-49: the fields, then this.connect().
Init ==
    /\ ready = FALSE
    /\ ws = 1
    /\ sock = <<NewSock>>
    /\ pingInterval = 0
    /\ intervals = {}
    /\ connectionVerified = FALSE
    /\ pending = {}
    /\ calls = <<>>
    /\ timer = <<>>
    /\ handlers = <<>>
    /\ onEventFunctions = [k \in Kinds |-> <<>>]
    /\ onNextEventFunctions = [k \in Kinds |-> <<>>]
    /\ inv = <<>>
    /\ called = {}
    /\ last = Step("new", 1, "", <<>>, <<>>)

(* ------------------------------ actions -------------------------------- *)
\* A transport may still be created while its reconnect has room below the
\* bound: every close is owed one connect().
Room == Len(sock) + Cardinality(Sleeping) < MaxSock

\* connect() calls the application has made: the transports that are neither
\* the constructor's nor a reconnect's.
UserConnects == Len(sock) - 1 - Cardinality({t \in Socks : sock[t].sleep = "done"})

\* connect() called by the application, index.ts:62-112
Connect ==
    /\ Room
    /\ UserConnects < MaxConnects
    /\ sock' = Append(sock, NewSock)
    /\ ws' = Len(sock) + 1
    /\ last' = Step("connect", Len(sock) + 1, "", <<>>, <<>>)
    /\ UNCHANGED <<ready, pingInterval, intervals, connectionVerified>>
    /\ UNCHANGED <<reqVars, busVars>>

\* ws.onopen of transport t, index.ts:65-71
Open(t) ==
    /\ sock[t].state = "connecting"
    /\ sock' = [sock EXCEPT ![t].state = "open"]
    /\ ready' = TRUE
    /\ intervals' = ClearInterval(intervals, pingInterval) \cup {t}
    /\ pingInterval' = t
    /\ LET b == Trigger(Bus, "connect", <<>>)
       IN  /\ SetBus(b)
           /\ last' = [Step("open", t, "", b.events, b.invoked) EXCEPT
                          !.ms = PING_INTERVAL_MS, !.passed = b.passed]
    /\ UNCHANGED <<ws, reqVars>>

\* ws.onclose of transport t up to the await, index.ts:73-82
Close(t, r) ==
    /\ sock[t].state # "closed"
    /\ Room
    /\ sock' = [sock EXCEPT ![t].state = "closed", ![t].sleep = "sleeping"]
    /\ calls' = IF ready THEN RejectAll(calls, pending) ELSE calls
    /\ LET b0 == IF ready THEN Trigger(Bus, "disconnect", <<CloseEvent>>) ELSE Bus
           b == [b0 EXCEPT !.verified = VerifiedAfterClose(ready, b0.verified)]
       IN  /\ SetBus(b)
           /\ last' = [Step("close", t, IF ready THEN "ready" ELSE "", b.events,
                             b.invoked) EXCEPT !.ms = BackoffMs(r),
                                               !.passed = b.passed]
    \* this.cleanup()
    /\ ready' = FALSE
    /\ intervals' = ClearInterval(intervals, pingInterval)
    /\ ws' = 0
    /\ UNCHANGED <<pingInterval, pending, timer>>

\* SleepResolves with the continuation of the onclose run a second time
SleepResolves_Twice(t) ==
    /\ t \in Socks
    /\ sock[t].sleep \in {"sleeping", "done"}
    /\ Len(sock) < MaxSock

\* delay(ms), sleep.ts: the promise the onclose of transport t awaits is
\* resolved by its timer
SleepResolves(t) ==
    /\ t \in Socks
    /\ sock[t].sleep = "sleeping"

\* Reconnect with the onclose returning after the sleep without connect()
Reconnect_Skip(t) ==
    /\ SleepResolves(t)
    /\ sock' = [sock EXCEPT ![t].sleep = "done"]
    /\ last' = Step("reconnect", t, "", <<>>, <<>>)
    /\ UNCHANGED <<ready, ws, pingInterval, intervals, connectionVerified>>
    /\ UNCHANGED <<reqVars, busVars>>

\* the sleep of transport t's onclose resolves: this.connect(), index.ts:82-83
Reconnect(t) ==
    /\ SleepResolves(t)
    /\ sock' = Append([sock EXCEPT ![t].sleep = "done"], NewSock)
    /\ ws' = Len(sock) + 1
    /\ last' = Step("reconnect", t, "", <<>>, <<>>)
    /\ UNCHANGED <<ready, pingInterval, intervals, connectionVerified>>
    /\ UNCHANGED <<reqVars, busVars>>

\* Error with the onerror tearing the connection down as an onclose does
Error_Closes(t) ==
    /\ sock[t].state # "closed"
    /\ ready' = FALSE
    /\ ws' = 0
    /\ intervals' = ClearInterval(intervals, pingInterval)
    /\ last' = Step("error", t, "", <<>>, <<>>)
    /\ UNCHANGED <<sock, pingInterval, connectionVerified, reqVars, busVars>>

\* ws.onerror of transport t, index.ts:86-88: a log line
Error(t) ==
    /\ sock[t].state # "closed"
    /\ last' = Step("error", t, "", <<>>, <<>>)
    /\ UNCHANGED <<connVars, connectionVerified, reqVars, busVars>>

\* cleanup() called by the application, index.ts:147-151
Cleanup ==
    /\ ready' = FALSE
    /\ intervals' = ClearInterval(intervals, pingInterval)
    /\ ws' = 0
    /\ last' = Step("cleanup", 0, "", <<>>, <<>>)
    /\ UNCHANGED <<sock, pingInterval, connectionVerified, reqVars, busVars>>

\* ping(), index.ts:156-164, from the interval timer i or from the application
PingBody(who) ==
    LET out == IF ready /\ ws # 0 THEN TransportSend(ws) ELSE "skipped"
    IN  /\ last' = Step("ping", who, out, <<>>, <<>>)
        /\ UNCHANGED <<connVars, connectionVerified, reqVars, busVars>>

PingTimer(i) ==
    /\ i \in intervals
    /\ PingBody(i)

Ping == PingBody(0)

\* verify() called by the application, index.ts:54-57
Verify ==
    /\ LET b == VerifyCall(Bus)
       IN  /\ SetBus(b)
           /\ last' = [Step("verify", 0, "", b.events, b.invoked) EXCEPT
                          !.passed = b.passed]
    /\ UNCHANGED <<connVars, reqVars>>

\* on(event, f) called by the application, index.ts:119-121
On(kind, beh) ==
    /\ Len(handlers) < MaxHandlers
    /\ SetBus(PushOn(Bus, kind, beh))
    /\ last' = Step("on", Len(handlers) + 1, "", <<>>, <<>>)
    /\ UNCHANGED <<connVars, reqVars>>

\* onNext(event, f) called by the application, index.ts:128-130
OnNext(kind, beh) ==
    /\ Len(handlers) < MaxHandlers
    /\ SetBus(PushNext(Bus, kind, beh))
    /\ last' = Step("onNext", Len(handlers) + 1, "", <<>>, <<>>)
    /\ UNCHANGED <<connVars, reqVars>>

\* send(message, timeout), index.ts:172-204
Send(m, to) ==
    IF ~SendAccepted
    THEN /\ last' = Step("send", 0, "not ready", <<>>, <<>>)
         /\ UNCHANGED <<connVars, connectionVerified, reqVars, busVars>>
    ELSE /\ Len(calls) < MaxKeys
         /\ LET key == Len(calls) + 1
                out == IF ws = 0 THEN "ws is undefined" ELSE TransportSend(ws)
            IN  /\ pending' = pending \cup {key}
                /\ calls' = Append(calls,
                       CASE out = "ws is undefined" -> <<Reject("ws is undefined")>>
                         [] out = "throw" -> <<Reject("InvalidStateError")>>
                         [] OTHER -> <<>>)
                \* a raising ws.send leaves the executor before setTimeout
                /\ timer' = Append(timer, IF out = "throw" THEN "none" ELSE "armed")
                /\ last' = [Step("send", key, out, <<>>, <<>>) EXCEPT
                               !.val = IF out = "sent" THEN m ELSE "",
                               !.arg = to,
                               !.ms = IF out = "throw" THEN None ELSE DeadlineMs(to)]
         /\ UNCHANGED <<connVars, connectionVerified, busVars>>

\* Timeout with the callback deleting the key without rejecting the slot
Timeout_Silent(k) ==
    /\ timer[k] = "armed"
    /\ timer' = [timer EXCEPT ![k] = "fired"]
    /\ pending' = pending \ {k}
    /\ last' = Step("timeout", k, "absent", <<>>, <<>>)
    /\ UNCHANGED <<calls, connVars, connectionVerified, busVars>>

\* the deadline timer of key k fires, index.ts:195-202
Timeout(k) ==
    /\ timer[k] = "armed"
    /\ timer' = [timer EXCEPT ![k] = "fired"]
    /\ calls' = IF k \in pending
                THEN [calls EXCEPT ![k] = Append(@, Reject("timeout"))]
                ELSE calls
    /\ pending' = pending \ {k}
    /\ last' = Step("timeout", k, IF k \in pending THEN "timeout" ELSE "absent", <<>>, <<>>)
    /\ UNCHANGED <<connVars, connectionVerified, busVars>>

\* The keys the remote end has seen: those of the frames put on the wire.
Transmitted(k) ==
    calls[k] = <<>> \/ Head(calls[k]).val \notin {"ws is undefined", "InvalidStateError"}

\* A key send() never generates: what pending.get(msg.key) does not find.
StrayKey == MaxKeys + 1

\* An inbound frame: key 0 is a frame without a key; a keyed frame answers a
\* request that was transmitted (the keys are uuid4 values) or carries a key
\* the instance has never seen.
Frames ==
    [key : {0, StrayKey} \cup {k \in Keys : Transmitted(k)},
     type : Types, payload : Payloads]

\* The payload field of a frame alone.
PayloadOnly(fr) == [payload |-> fr.payload]

\* MessageArg with msg.payload handed to the handlers
MessageArg_Payload(fr) == PayloadOnly(fr)

\* this.trigger("message", msg), index.ts:109: the parsed frame as it is
MessageArg(fr) == fr

\* HasKey with every frame taken for a response
HasKey_Always(fr) == TRUE

\* if (msg.key), index.ts:95
HasKey(fr) == fr.key # 0

\* ws.onmessage of transport t, index.ts:90-111
Message(t, fr) ==
    /\ sock[t].state = "open"
    /\ IF HasKey(fr)
       THEN IF fr.key \notin pending
            THEN /\ last' = [Step("message", fr.key, "not found", <<>>, <<>>) EXCEPT
                                !.val = fr.payload]
                 /\ UNCHANGED <<connectionVerified, reqVars, busVars>>
            ELSE /\ calls' = [calls EXCEPT ![fr.key] = Append(@,
                                 IF fr.type = "failure" THEN Reject(fr.payload)
                                 ELSE Resolve(fr.payload))]
                 /\ pending' = pending \ {fr.key}
                 /\ last' = [Step("message", fr.key, fr.type, <<>>, <<>>) EXCEPT
                                !.val = fr.payload]
                 /\ UNCHANGED <<connectionVerified, timer, busVars>>
       ELSE /\ LET b == Trigger(Bus, "message", <<MessageArg(fr)>>)
               IN  /\ SetBus(b)
                   /\ last' = [Step("message", 0, fr.type, b.events, b.invoked) EXCEPT
                                  !.val = fr.payload, !.passed = b.passed]
            /\ UNCHANGED reqVars
    /\ UNCHANGED connVars

Next ==
    \/ Connect
    \/ \E t \in Socks : Open(t)
    \/ \E t \in Socks, r \in Randoms : Close(t, r)
    \/ \E t \in Socks : Reconnect(t)
    \/ \E t \in Socks : Error(t)
    \/ Cleanup
    \/ \E i \in intervals : PingTimer(i)
    \/ Ping
    \/ Verify
    \/ \E kind \in Kinds, beh \in Behaviours : On(kind, beh)
    \/ \E kind \in Kinds, beh \in Behaviours : OnNext(kind, beh)
    \/ \E m \in Messages, to \in Timeouts : Send(m, to)
    \/ \E k \in Keys : Timeout(k)
    \/ \E t \in Socks : \E fr \in Frames : Message(t, fr)

\* The whole instance: every public call and every callback.
Spec == Init /\ [][Next]_vars

\* The application sends requests and may call cleanup(); it registers no
\* handler.
NextReq ==
    \/ \E t \in Socks : Open(t)
    \/ \E t \in Socks, r \in Randoms : Close(t, r)
    \/ \E t \in Socks : Reconnect(t)
    \/ \E m \in Messages, to \in Timeouts : Send(m, to)
    \/ \E k \in Keys : Timeout(k)
    \/ \E t \in Socks : \E fr \in Frames : Message(t, fr)
    \/ Cleanup

ReqSpec == Init /\ [][NextReq]_vars

\* The successful responses to the requests made so far.
Responses == {fr \in Frames : fr.key \in Keys /\ fr.type = "ok"}

\* The requests of ReqSpec with the default timeout, one backoff delay and
\* successful responses as the only frames (none of these decides whether a
\* future is settled), and with every armed deadline timer eventually
\* firing.
NextSettle ==
    \/ \E t \in Socks : Open(t)
    \/ \E t \in Socks : Close(t, <<0, 1>>)
    \/ \E t \in Socks : Reconnect(t)
    \/ \E m \in Messages : Send(m, None)
    \/ \E k \in Keys : Timeout(k)
    \/ \E t \in Socks : \E fr \in Responses : Message(t, fr)
    \/ Cleanup

ReqLive ==
    /\ Init
    /\ [][NextSettle]_vars
    /\ \A k \in 1..MaxKeys : WF_vars(k \in Keys /\ Timeout(k))

\* The application only sends: connect() is called by the constructor and by
\* the reconnect alone, cleanup() by the onclose alone.
NextAuto ==
    \/ \E t \in Socks : Open(t)
    \/ \E t \in Socks, r \in Randoms : Close(t, r)
    \/ \E t \in Socks : Reconnect(t)
    \/ \E m \in Messages, to \in Timeouts : Send(m, to)
    \/ \E k \in Keys : Timeout(k)
    \/ \E t \in Socks : \E fr \in Frames : Message(t, fr)

AutoSpec == Init /\ [][NextAuto]_vars

\* The connection alone: the application sends nothing and registers no
\* handler.
NextConn ==
    \/ Connect
    \/ \E t \in Socks : Open(t)
    \/ \E t \in Socks, r \in Randoms : Close(t, r)
    \/ \E t \in Socks : Reconnect(t)
    \/ \E t \in Socks : Error(t)
    \/ Cleanup
    \/ \E i \in intervals : PingTimer(i)
    \/ Ping
    \/ Verify

ConnSpec == Init /\ [][NextConn]_vars

\* ConnSpec with the timer of every backoff sleep eventually firing.
LiveSpec == ConnSpec /\ \A t \in 1..MaxSock : WF_vars(Reconnect(t))

\* The frames without a key.
Broadcasts == {fr \in Frames : fr.key = 0}

\* The event bus over the life of one transport: the application registers
\* handlers and calls verify(); the transport opens, delivers frames without
\* a key (it sends no request, so no frame answers one) and closes (with one
\* backoff delay, which the bus never sees).
NextBus ==
    \/ \E t \in Socks : Open(t)
    \/ \E t \in Socks : Close(t, <<0, 1>>)
    \/ Verify
    \/ \E kind \in Kinds, beh \in Behaviours : On(kind, beh)
    \/ \E kind \in Kinds, beh \in Behaviours : OnNext(kind, beh)
    \/ \E t \in Socks : \E fr \in Broadcasts : Message(t, fr)

BusSpec == Init /\ [][NextBus]_vars

(* ======================= properties of the code ======================== *)
Count(seq, x) == Cardinality({i \in DOMAIN seq : seq[i] = x})

\* C1: a send() made while ready is false throws "not ready" and does
\* nothing else: nothing is put on the wire, pending gets no entry, no slot
\* is touched and no deadline timer is armed.
C1_SendNotReady ==
    [][(last'.op = "send" /\ ~ready) =>
          /\ last'.res = "not ready"
          /\ last'.ms = None
          /\ UNCHANGED <<pending, calls, timer>>]_vars

\* a rejected send() after the connection had been up, with a request of
\* the earlier epoch still in pending
C1_Witness ==
    /\ last.op = "send"
    /\ last.res = "not ready"
    /\ pending # {}
    /\ \E t \in Socks : sock[t].state = "closed"

\* C2: the callbacks of a slot are invoked at most once in total, and once
\* one has been invoked the key is absent from pending.
C2_ExactlyOnce ==
    \A k \in Keys :
        /\ Len(calls[k]) <= 1
        /\ (Len(calls[k]) = 1 => k \notin pending)

\* C3: the onclose of a transport while ready is true rejects every request
\* in pending with "disconnect" (every one that was unsettled is then
\* rejected with that reason, none is resolved, none is skipped), touches no
\* other slot, and dispatches the disconnect event exactly once.
C3_CloseRejectsAll ==
    [][(last'.op = "close" /\ ready) =>
          /\ \A k \in pending :
                /\ calls'[k] = Append(calls[k], Reject("disconnect"))
                /\ Settled(calls'[k]).state = "rejected"
                /\ (calls[k] = <<>> => Settled(calls'[k]).val = "disconnect")
          /\ \A k \in Keys \ pending : calls'[k] = calls[k]
          /\ Count(last'.events, "disconnect") = 1]_vars

\* two requests failed by the close of a reconnected transport
C3_Witness ==
    /\ last.op = "close"
    /\ last.res = "ready"
    /\ Cardinality(pending) = 2
    /\ \A k \in pending : Future(k) = [state |-> "rejected", val |-> "disconnect"]
    /\ \E t \in Socks : sock[t].sleep = "done"

\* C4: a response frame whose key is in pending settles the future with the
\* frame's payload (rejected when the type is "failure", fulfilled
\* otherwise) and removes the key; a deadline timer that fires for a key no
\* longer in pending invokes no callback and leaves pending unchanged.
C4_ResponseWins ==
    [][/\ (last'.op = "message" /\ last'.id \in pending) =>
             /\ Settled(calls'[last'.id]) =
                    [state |-> IF last'.res = "failure" THEN "rejected" ELSE "fulfilled",
                     val |-> last'.val]
             /\ pending' = pending \ {last'.id}
       /\ (last'.op = "timeout" /\ last'.id \notin pending) =>
             UNCHANGED <<pending, calls>>]_vars

\* The request of key k got no response and no close reached its slot.
Unanswered(k) ==
    \A i \in DOMAIN calls[k] : calls[k][i].val \notin Payloads \cup {"disconnect"}

\* The first part of C5 for key k: no timeout outcome before the deadline
\* timer fires, and once it has fired the future is rejected with "timeout"
\* and the key is out of pending.
TimeoutAtDeadline(k) ==
    /\ timer[k] # "fired" => Future(k).val # "timeout"
    /\ timer[k] = "fired" =>
          /\ Future(k) = [state |-> "rejected", val |-> "timeout"]
          /\ k \notin pending

\* The delay of the deadline timer an accepted send() arms is its timeout
\* argument, or MESSAGE_TIMEOUT_MS when the argument is omitted.
DeadlineIsArgument ==
    [][(last'.op = "send" /\ last'.res \in {"sent", "dropped", "ws is undefined"}) =>
          /\ timer'[last'.id] = "armed"
          /\ last'.ms = IF last'.arg = None THEN MESSAGE_TIMEOUT_MS ELSE last'.arg]_vars

\* C5 as claimed: every accepted send() that gets no response and sees no
\* close is rejected with "timeout" when, and not before, its timer fires.
C5_TimeoutAtDeadline ==
    \A k \in Keys : Unanswered(k) => TimeoutAtDeadline(k)

\* C5 (amended): the same for every accepted send() whose frame was
\* transmitted; the timer's delay is the timeout argument or the default.
C5_TimeoutOfTransmitted ==
    /\ [](\A k \in Keys : (Unanswered(k) /\ Transmitted(k)) => TimeoutAtDeadline(k))
    /\ DeadlineIsArgument

\* a request sent with timeout 0 that timed out
C5_Witness ==
    /\ last.op = "timeout"
    /\ last.res = "timeout"
    /\ Future(last.id) = [state |-> "rejected", val |-> "timeout"]
    /\ Len(calls[last.id]) = 1
    /\ last.id \notin pending

\* C6: a one-shot registration is invoked at most once.
C6_AtMostOnce ==
    \A h \in DOMAIN handlers : handlers[h].once => inv[h] <= 1

\* The registrations held by a list of the bus.
Elems(list) == {list[i] : i \in DOMAIN list}

\* C7: a one-shot registration that has not been invoked is still on the
\* one-shot list of its kind (it is never dropped without having run, so the
\* next trigger of its kind finds it).
C7_NeverLost ==
    \A h \in DOMAIN handlers :
        (handlers[h].once /\ inv[h] = 0) =>
            h \in Elems(onNextEventFunctions[handlers[h].kind])

\* C8: at most one transport that is not closed exists.
C8_SingleTransport == Cardinality(NotClosed) <= 1

\* The steps of the reconnect loop: an onclose opens no transport, puts its
\* transport to sleep for a delay in [RECONNECT_MIN_MS, RECONNECT_MIN_MS +
\* RECONNECT_DELAY_MS); a sleep ends only by the reconnect of that close,
\* which opens exactly one new transport and makes it this.ws; transports
\* appear one at a time, by connect() alone; an onopen dispatches connect.
ReconnectSteps ==
    [][/\ last'.op = "close" =>
             /\ Len(sock') = Len(sock)
             /\ sock[last'.id].sleep = "no"
             /\ sock'[last'.id].sleep = "sleeping"
             /\ last'.ms >= RECONNECT_MIN_MS
             /\ last'.ms < RECONNECT_MIN_MS + RECONNECT_DELAY_MS
       /\ \A t \in Socks :
             sock'[t].sleep # sock[t].sleep =>
                \/ /\ sock[t].sleep = "no" /\ sock'[t].sleep = "sleeping"
                   /\ last'.op = "close" /\ last'.id = t
                \/ /\ sock[t].sleep = "sleeping" /\ sock'[t].sleep = "done"
                   /\ last'.op = "reconnect" /\ last'.id = t
                   /\ Len(sock') = Len(sock) + 1
                   /\ sock'[Len(sock')].state = "connecting"
                   /\ ws' = Len(sock')
       /\ Len(sock') # Len(sock) =>
             /\ Len(sock') = Len(sock) + 1
             /\ last'.op \in {"connect", "reconnect"}
       /\ last'.op = "open" => Count(last'.events, "connect") = 1]_vars

C10_Verified ==
    [][/\ (connectionVerified' /\ ~connectionVerified) =>
             Count(last'.events, "verify") >= 1
       /\ last'.op = "verify" =>
             /\ connectionVerified'
             /\ Count(last'.events, "verify") >= 1
       /\ last'.op = "close" => ~connectionVerified']_vars

\* an onclose whose disconnect handler called verify() left the flag false
C10_Witness ==
    /\ last.op = "close"
    /\ Count(last.events, "verify") = 1
    /\ ~connectionVerified

\* C11: a send() accepted while ready is true whose transmission fails
\* synchronously (this.ws undefined, or ws.send raising) returns a future
\* that is already rejected, and its key is not in pending when send()
\* returns.
C11_FailedSendLeavesNoSlot ==
    [][(last'.op = "send" /\ last'.res \in {"ws is undefined", "throw"}) =>
          /\ Settled(calls'[last'.id]).state = "rejected"
          /\ last'.id \notin pending']_vars

\* C12: a handler registered (on or onNext) while a dispatch is running is
\* not invoked by that dispatch: no registration made during a step is among
\* the handlers the step invoked.
C12_NoGrowthInFlight ==
    [][\A h \in DOMAIN handlers' \ DOMAIN handlers :
          Count(last'.invoked, h) = 0]_vars

\* a occurs in b, in order (not necessarily contiguously)
IsSubSeq(a, b) ==
    \E f \in [DOMAIN a -> DOMAIN b] :
        /\ \A i \in DOMAIN a : a[i] = b[f[i]]
        /\ \A i, j \in DOMAIN a : i < j => f[i] < f[j]

\* The kind of the trigger a dispatching step starts with.
TopKind(l) == l.events[1]

QuietDispatch ==
    /\ Len(last'.events) = 1
    /\ handlers' = handlers

HadOutcome(k) == k \in Keys /\ calls[k] # <<>>

\* C14: a keyed frame whose key is not in pending, or belongs to a request
\* already answered, timed out or failed by a disconnect, is dropped: no slot
\* callback is invoked, pending, ready and connectionVerified stay as they
\* are and no event is dispatched.
C14_StaleFrameDropped ==
    [][(/\ last'.op = "message"
        /\ last'.id # 0
        /\ (last'.id \notin pending \/ HadOutcome(last'.id))) =>
          /\ UNCHANGED <<pending, calls, ready, connectionVerified>>
          /\ last'.events = <<>>]_vars

\* C15: a frame with a key dispatches no message event; a frame without a
\* key dispatches the message event exactly once and touches no slot:
\* pending, the callbacks invoked and the timers stay as they are.
C15_RoutingExclusive ==
    [][last'.op = "message" =>
          /\ last'.id # 0 => Count(last'.events, "message") = 0
          /\ last'.id = 0 =>
                /\ Count(last'.events, "message") = 1
                /\ UNCHANGED <<pending, calls, timer>>]_vars

\* a frame without a key arrived while a request was waiting in pending
C15_Witness ==
    /\ last.op = "message"
    /\ last.id = 0
    /\ last.events = <<"message">>
    /\ \E k \in pending : calls[k] = <<>>

\* The parsed frame of the message step that label l describes.
FrameOf(l) == [key |-> l.id, type |-> l.res, payload |-> l.val]

\* The arguments every message handler run by the step just taken was
\* called with are the one-element list <<a>>.
MessageHandlersGot(a) ==
    \A i \in DOMAIN last'.invoked :
        handlers'[last'.invoked[i]].kind = "message" =>
            last'.passed[i] = <<a>>

\* C16 as claimed: the message handlers run for a frame without a key are
\* called with the frame's payload field alone.
C16_PayloadPassed ==
    [][(last'.op = "message" /\ last'.id = 0) =>
          MessageHandlersGot(PayloadOnly(FrameOf(last')))]_vars

\* C16 (amended): they are called with the whole parsed frame, type
\* discriminator and payload.
C16_EnvelopePassed ==
    [][(last'.op = "message" /\ last'.id = 0) =>
          MessageHandlersGot(FrameOf(last'))]_vars

\* a frame without a key was handed to two message handlers
C16_Witness ==
    /\ last.op = "message"
    /\ last.id = 0
    /\ Len(last.invoked) = 2
    /\ \A i \in DOMAIN last.invoked :
          /\ handlers[last.invoked[i]].kind = "message"
          /\ last.passed[i] = <<FrameOf(last)>>

\* C17: at most one heartbeat interval is armed, one is armed exactly when
\* ready is true, and it is the one this.pingInterval names (never one of an
\* earlier epoch); a ping() run while ready is false puts nothing on the
\* wire, and a probe that is put on the wire by a timer comes from the
\* current interval.
C17_Heartbeat ==
    /\ [](/\ Cardinality(intervals) <= 1
          /\ ready <=> intervals # {}
          /\ intervals \subseteq {pingInterval})
    /\ [][last'.op = "ping" =>
             /\ ~ready => last'.res = "skipped"
             /\ last'.res = "sent" => ready
             /\ last'.id # 0 => last'.id = pingInterval]_vars

\* the interval armed by a reconnected transport's onopen has sent a probe
C17_Witness ==
    /\ last.op = "ping"
    /\ last.res = "sent"
    /\ last.id = pingInterval
    /\ intervals = {pingInterval}
    /\ \E t \in Socks : sock[t].sleep = "done" /\ t < pingInterval

\* C18: an onerror, and a ping() whose ws.send raises, change nothing of
\* the instance: ready, this.ws, the heartbeat interval, pending, the slots
\* and connectionVerified stay as they are and no transport is created; of
\* the callbacks, only the reconnect of a closed transport, after its
\* onclose, creates a transport.
C18_ErrorsAreInert ==
    [][/\ (last'.op = "error" \/ (last'.op = "ping" /\ last'.res = "throw")) =>
             UNCHANGED <<ready, ws, sock, pingInterval, intervals, pending,
                         calls, timer, connectionVerified>>
       /\ (Len(sock') # Len(sock) /\ last'.op # "connect") =>
             /\ last'.op = "reconnect"
             /\ sock[last'.id].state = "closed"
             /\ sock[last'.id].sleep = "sleeping"]_vars

\* a probe raised on a transport that was still connecting
C18_Witness ==
    /\ last.op = "ping"
    /\ last.res = "throw"
    /\ ready
    /\ sock[ws].state = "connecting"

\* C19: every accepted send() eventually has its future settled (armed
\* timers eventually firing): from any state in which key k exists, a state
\* is reached in which its future is fulfilled or rejected.
C19_EventuallySettled ==
    \A k \in 1..MaxKeys :
        [](k \in Keys => <>(k \in Keys /\ Future(k).state # "pending"))

\* two requests of two connection epochs, each settled only by its deadline
\* timer
C19_Witness ==
    /\ Len(calls) = 2
    /\ \A k \in Keys : calls[k] = <<Reject("timeout")>> /\ timer[k] = "fired"
    /\ \E t \in Socks : sock[t].sleep = "done"

\* The connection state the fields encode: Connected while ready is true,
\* Connecting while a transport is held that has not opened, Disconnected
\* while none is held.
ConnState ==
    IF ready THEN "Connected"
    ELSE IF ws # 0 THEN "Connecting" ELSE "Disconnected"

\* C20: with connect() called by the constructor and the reconnect alone and
\* cleanup() by the onclose alone, at most one transport is not closed,
\* this.ws is that transport whenever one is held and it is open whenever
\* ready is true, and the state changes only from Disconnected to Connecting
\* (the reconnect's connect()), from Connecting to Connected (onopen) and
\* from Connecting or Connected to Disconnected (onclose).
C20_Lifecycle ==
    /\ [](/\ Cardinality(NotClosed) <= 1
          /\ ready => ws # 0
          /\ ws # 0 => NotClosed = {ws}
          /\ ws # 0 => (ready <=> sock[ws].state = "open")
          /\ ws = 0 => NotClosed = {})
    /\ [][ConnState' # ConnState =>
             \/ /\ ConnState = "Disconnected" /\ ConnState' = "Connecting"
                /\ last'.op = "reconnect"
             \/ /\ ConnState = "Connecting" /\ ConnState' = "Connected"
                /\ last'.op = "open"
             \/ /\ ConnState \in {"Connecting", "Connected"}
                /\ ConnState' = "Disconnected"
                /\ last'.op = "close"]_vars

\* a request put on the wire of a reconnected transport, the only one that
\* is not closed
C20_Witness ==
    /\ last.op = "send"
    /\ last.res = "sent"
    /\ ConnState = "Connected"
    /\ ws > 1
    /\ NotClosed = {ws}

=============================================================================
